---- MODULE Spec2Model ----
(***************************************************************************)
(* A model of main.py: the StartupEvaluator class.  run() fetches search   *)
(* snippets, asks the language model once, parses the reply into the ten   *)
(* fixed categories, scores every category and prints a report with a      *)
(* recommendation.                                                         *)
(*                                                                         *)
(* Text is a sequence of one-character strings, so that `in`, split() and  *)
(* strip() are computed character by character as Python computes them.    *)
(* None is the one-element sequence <<"None">>, which no text equals       *)
(* because every element of a text is a single character.                 *)
(***************************************************************************)
EXTENDS Integers, Sequences, FiniteSets, TLC

VARIABLES
    company_name,   \* self.company_name
    data,           \* self.data: category -> None or text
    pc,             \* the statement of run() (or of the harness) to execute next
    fetch_status,   \* how requests.get ended in fetch_company_info
    fetched_info,   \* run()'s local fetched_info
    prompt,         \* the prompts passed to ask_openai, in order
    response,       \* analyze_startup()'s local response
    scores,         \* evaluate()'s scores dict (detailed_scores in run())
    total_score,    \* evaluate()'s total_score (final_score in run())
    printed,        \* the recommendation lines generate_report() printed
    search_calls,   \* number of requests.get calls
    steps,          \* the methods run() has called, in order
    parses          \* number of times lines 118-122 were applied to data

vars == <<company_name, data, pc, fetch_status, fetched_info, prompt, response,
          scores, total_score, printed, search_calls, steps, parses>>

-----------------------------------------------------------------------------
(* Values *)

None == <<"None">>

\* Python truthiness of an optional text or list: None, "" and [] are false.
Truthy(v) == v # None /\ Len(v) > 0

\* The category names, in the insertion order of self.data.
Keys ==
    << "Market Opportunity",
       "Problem & Solution Fit",
       "Competitive Advantage",
       "Team Strength",
       "Exit Potential",
       "Revenue Growth",
       "Burn Rate & Runway",
       "Funding History",
       "Customer Adoption",
       "Valuation & Cap Table" >>

KeySet == {Keys[i] : i \in 1..Len(Keys)}

\* The characters of each category name.
KeyText ==
       ("Market Opportunity" :> <<"M","a","r","k","e","t"," ","O","p","p","o","r","t","u","n","i","t","y">>)
    @@ ("Problem & Solution Fit" :> <<"P","r","o","b","l","e","m"," ","&"," ","S","o","l","u","t","i","o","n"," ","F","i","t">>)
    @@ ("Competitive Advantage" :> <<"C","o","m","p","e","t","i","t","i","v","e"," ","A","d","v","a","n","t","a","g","e">>)
    @@ ("Team Strength" :> <<"T","e","a","m"," ","S","t","r","e","n","g","t","h">>)
    @@ ("Exit Potential" :> <<"E","x","i","t"," ","P","o","t","e","n","t","i","a","l">>)
    @@ ("Revenue Growth" :> <<"R","e","v","e","n","u","e"," ","G","r","o","w","t","h">>)
    @@ ("Burn Rate & Runway" :> <<"B","u","r","n"," ","R","a","t","e"," ","&"," ","R","u","n","w","a","y">>)
    @@ ("Funding History" :> <<"F","u","n","d","i","n","g"," ","H","i","s","t","o","r","y">>)
    @@ ("Customer Adoption" :> <<"C","u","s","t","o","m","e","r"," ","A","d","o","p","t","i","o","n">>)
    @@ ("Valuation & Cap Table" :> <<"V","a","l","u","a","t","i","o","n"," ","&"," ","C","a","p"," ","T","a","b","l","e">>)

\* f"{key}:"
Marker(key) == Append(KeyText[key], ":")

\* self.data as __init__ leaves it.
FreshData == [k \in KeySet |-> None]

-----------------------------------------------------------------------------
(* Python string operations used by analyze_startup *)

Whitespace == {" ", "\t", "\n", "\r"}

\* Whether the non-empty sep occurs in s starting at index i.
MatchAt(s, sep, i) ==
    /\ i >= 1
    /\ i + Len(sep) - 1 <= Len(s)
    /\ s[i] = sep[1]
    /\ SubSeq(s, i, i + Len(sep) - 1) = sep

\* s.find(sep, from) with 1-based indices; 0 when sep does not occur.
Find(s, sep, from) ==
    LET hits == {i \in from..(Len(s) - Len(sep) + 1) : MatchAt(s, sep, i)}
    IN  IF hits = {} THEN 0
        ELSE CHOOSE i \in hits : \A j \in hits : i <= j

\* sep in s
Contains(s, sep) == Find(s, sep, 1) # 0

\* s.split(sep)[0]
SplitFirst(s, sep) ==
    LET i == Find(s, sep, 1)
    IN  IF i = 0 THEN s ELSE SubSeq(s, 1, i - 1)

\* s.split(sep)[1], for s that contains sep: the text between the first
\* occurrence of sep and the next one after it (or the end of s).
SplitSecond(s, sep) ==
    LET i     == Find(s, sep, 1)
        start == i + Len(sep)
        j     == Find(s, sep, start)
    IN  IF j = 0 THEN SubSeq(s, start, Len(s)) ELSE SubSeq(s, start, j - 1)

\* s.strip()
Strip(s) ==
    LET keep == {i \in 1..Len(s) : s[i] \notin Whitespace}
    IN  IF keep = {} THEN <<>>
        ELSE SubSeq(s, CHOOSE i \in keep : \A j \in keep : i <= j,
                       CHOOSE i \in keep : \A j \in keep : i >= j)

-----------------------------------------------------------------------------
(* analyze_startup: parsing the reply (lines 118-122) *)

\* A variant of ParseKey that appends to a value already stored.
ParseKey_Accumulate(resp, key, old) ==
    IF Contains(resp, Marker(key))
    THEN (IF old = None THEN <<>> ELSE old)
             \o Strip(SplitFirst(SplitSecond(resp, Marker(key)), <<"\n">>))
    ELSE old

\* Line 121-122 for one key: the new self.data[key], given the old one.
ParseKey(resp, key, old) ==
    IF Contains(resp, Marker(key))
    THEN Strip(SplitFirst(SplitSecond(resp, Marker(key)), <<"\n">>))
    ELSE old

\* Lines 118-122: self.data after the loop, given self.data before it.
ParseResponse(resp, d) ==
    IF Truthy(resp)
    THEN [k \in KeySet |-> ParseKey(resp, k, d[k])]
    ELSE d

\* ask_openai: the message content, or None when the call raised.
AskOpenai(outcome) ==
    IF outcome.raised THEN None ELSE outcome.content

\* multi_question_prompt: fixed text around the company name.
MultiQuestionPrompt(name) ==
    <<"Please analyze the startup \"">> \o name
        \o <<"\" based on these criteria: 1. ... 10. ; answer as <category>: <answer>">>

-----------------------------------------------------------------------------
(* fetch_company_info *)

SnippetLimit == 3

FetchOutcomes == {"timeout", "exception", "non200", "ok"}

\* A variant of FetchResult without the status_code check of line 60.
FetchResult_IgnoreStatus(status, spans) ==
    IF status \in {"ok", "non200"}
    THEN SubSeq(spans, 1, IF Len(spans) < SnippetLimit THEN Len(spans) ELSE SnippetLimit)
    ELSE None

\* The return value, given how requests.get ended and the text of the
\* page's span elements.
FetchResult(status, spans) ==
    IF status = "ok"
    THEN SubSeq(spans, 1, IF Len(spans) < SnippetLimit THEN Len(spans) ELSE SnippetLimit)
    ELSE None

-----------------------------------------------------------------------------
(* evaluate *)

ScoreModulus == 10
ScoreFloor == 1
ScoreCeiling == 10
RandintLow == 1
RandintHigh == 5

Min(a, b) == IF a <= b THEN a ELSE b
Max(a, b) == IF a >= b THEN a ELSE b

\* A variant of HeuristicScore without the lower clamp.
HeuristicScore_NoFloor(value) ==
    Min(ScoreCeiling, Len(value) % ScoreModulus)

\* A variant of HeuristicScore without the modulo.
HeuristicScore_NoModulo(value) ==
    Min(ScoreCeiling, Max(ScoreFloor, Len(value)))

\* Line 132: the score of a present value.
HeuristicScore(value) ==
    Min(ScoreCeiling, Max(ScoreFloor, Len(value) % ScoreModulus))

\* Line 131: the keys that take the else branch.
Missing(d) == {k \in KeySet : ~Truthy(d[k])}

\* Line 130-134: the scores dict, given one random.randint result per key.
ScoreMap(d, draw) ==
    [k \in KeySet |-> IF Truthy(d[k]) THEN HeuristicScore(d[k]) ELSE draw[k]]

RECURSIVE SumOver(_, _)
\* sum(scores.values()), over the keys ks.
SumOver(s, ks) ==
    IF ks = {} THEN 0
    ELSE LET k == CHOOSE x \in ks : TRUE
         IN  s[k] + SumOver(s, ks \ {k})

\* A variant of TotalScore with integer division (sum // len).
TotalScore_Floored(s) ==
    [num |-> SumOver(s, DOMAIN s) \div Cardinality(DOMAIN s), den |-> 1]

\* Line 136: sum / len as an exact fraction (the float quotient of two small
\* integers compares with 5 and 8 as the exact quotient does).
TotalScore(s) ==
    [num |-> SumOver(s, DOMAIN s), den |-> Cardinality(DOMAIN s)]

NoScore == [num |-> 0, den |-> 0]

-----------------------------------------------------------------------------
(* generate_report *)

StrongThreshold == 8
PromisingThreshold == 5

\* score >= n for a fraction score.
AtLeast(score, n) == score.num >= n * score.den

\* A variant of Recommendation with a strict first comparison (score > 8).
Recommendation_Strict(score) ==
    IF score.num > StrongThreshold * score.den THEN "strong candidate"
    ELSE IF AtLeast(score, PromisingThreshold) THEN "promising, needs diligence"
    ELSE "high risk, not recommended"

\* Lines 149-154: the recommendation printed.
Recommendation(score) ==
    IF AtLeast(score, StrongThreshold) THEN "strong candidate"
    ELSE IF AtLeast(score, PromisingThreshold) THEN "promising, needs diligence"
    ELSE "high risk, not recommended"

-----------------------------------------------------------------------------
(* Bounds and inputs *)

MaxValueLen == 11      \* longest answer in a generated reply
MaxDeviations == 1     \* random draws of one evaluate() that differ from the rest
MaxSpans == 4          \* span elements on the fetched page
MaxPieces == 3         \* pieces of a reply in the parsing harness
MaxParses == 2         \* times the parsing harness applies the parse
Resolution == 1000     \* report harness: scores are multiples of 1/Resolution
MaxReportScore == 10   \* report harness: largest score

CompanyNames == {<<"A", "c", "m", "e">>, <<"A", "I", " ", "C", "o">>}

\* A variant of RandintRange: random.randint(1, 10).
RandintRange_Wide == RandintLow..ScoreCeiling

\* The values random.randint(1, 5) can return.
RandintRange == RandintLow..RandintHigh

RECURSIVE AtMost(_, _)
\* The subsets of S with at most n elements.
AtMost(S, n) ==
    IF n = 0 THEN {{}}
    ELSE LET smaller == AtMost(S, n - 1)
         IN  smaller \cup {T \cup {x} : T \in smaller, x \in S}

\* The results of the random.randint calls of one evaluate(), one per missing
\* key: all equal to some value of the range, except for at most
\* MaxDeviations keys that take any value of the range.
RandintDraws(missing) ==
    UNION { UNION { { [k \in missing |-> IF k \in D THEN f[k] ELSE base]
                      : f \in [D -> RandintRange] }
                    : D \in AtMost(missing, MaxDeviations) }
            : base \in RandintRange }

\* The text of the page's span elements.
Spans(n) == [i \in 1..n |-> ToString(i)]

\* An answer of the given length.
Answer(len) == [i \in 1..len |-> "x"]

\* One line of a reply in the format the prompt asks for.
Line(key, answer) == Marker(key) \o <<" ">> \o answer \o <<"\n">>

RECURSIVE Reply(_, _, _)
\* A well-formed reply answering the first n categories; the i-th answer is
\* len + step * (i - 1) characters long.
Reply(n, len, step) ==
    IF n = 0 THEN <<>>
    ELSE Reply(n - 1, len, step) \o Line(Keys[n], Answer(len + step * (n - 1)))

Replies(maxLen) ==
    {Reply(n, len, step) : n \in 0..Len(Keys), len \in 0..maxLen, step \in {0, 1}}

\* What openai.ChatCompletion.create can do in run(): raise, or return a
\* reply (possibly empty) that answers the first n categories with answers of
\* 0, 1, 2, ... characters.
RunOutcomes ==
    {[raised |-> TRUE, content |-> None]}
    \cup {[raised |-> FALSE, content |-> Reply(n, 0, 1)] : n \in 0..Len(Keys)}

\* Parsing harness: replies made of up to MaxPieces pieces.
Pieces == {Marker(k) : k \in KeySet} \cup {<<"a">>, <<" ">>, <<"\n">>}

RECURSIVE PieceReplies(_)
PieceReplies(n) ==
    IF n = 0 THEN {<<>>}
    ELSE LET shorter == PieceReplies(n - 1)
         IN  shorter \cup {r \o p : r \in shorter, p \in Pieces}

\* Report harness: the scores handed to generate_report.
ReportScores ==
    {[num |-> n, den |-> Resolution] : n \in 0..(MaxReportScore * Resolution)}

-----------------------------------------------------------------------------
(* The methods of StartupEvaluator as actions *)

\* A variant of FetchCompanyInfo that tries once more after a failure.
FetchCompanyInfo_Retry ==
    /\ pc = "fetch"
    /\ \E status \in FetchOutcomes, n \in 0..MaxSpans :
          /\ fetch_status' = status
          /\ fetched_info' = FetchResult(status, Spans(n))
          /\ pc' = IF status = "ok" \/ search_calls >= 1 THEN "analyze" ELSE "fetch"
    /\ search_calls' = search_calls + 1
    /\ steps' = Append(steps, "fetch_company_info")
    /\ UNCHANGED <<company_name, data, prompt, response, scores, total_score,
                   printed, parses>>

\* Lines 53-69, called from line 159.
FetchCompanyInfo ==
    /\ pc = "fetch"
    /\ \E status \in FetchOutcomes, n \in 0..MaxSpans :
          /\ fetch_status' = status
          /\ fetched_info' = FetchResult(status, Spans(n))
    /\ search_calls' = search_calls + 1
    /\ steps' = Append(steps, "fetch_company_info")
    /\ pc' = "analyze"
    /\ UNCHANGED <<company_name, data, prompt, response, scores, total_score,
                   printed, parses>>

\* Lines 84-125, called from line 165.
AnalyzeStartup ==
    /\ pc = "analyze"
    /\ prompt' = Append(prompt, MultiQuestionPrompt(company_name))
    /\ \E outcome \in RunOutcomes :
          /\ response' = AskOpenai(outcome)
          /\ data' = ParseResponse(AskOpenai(outcome), data)
    /\ parses' = parses + 1
    /\ steps' = Append(steps, "analyze_startup")
    /\ pc' = "evaluate"
    /\ UNCHANGED <<company_name, fetch_status, fetched_info, scores, total_score,
                   printed, search_calls>>

\* Lines 127-137, called from line 168.
Evaluate ==
    /\ pc = "evaluate"
    /\ \E draw \in RandintDraws(Missing(data)) :
          /\ scores' = ScoreMap(data, draw)
          /\ total_score' = TotalScore(ScoreMap(data, draw))
    /\ steps' = Append(steps, "evaluate")
    /\ pc' = "report"
    /\ UNCHANGED <<company_name, data, fetch_status, fetched_info, prompt, response,
                   printed, search_calls, parses>>

\* Lines 139-154, called from line 171; run() then ends.
GenerateReport ==
    /\ pc = "report"
    /\ printed' = Append(printed, Recommendation(total_score))
    /\ steps' = Append(steps, "generate_report")
    /\ pc' = "done"
    /\ UNCHANGED <<company_name, data, fetch_status, fetched_info, prompt, response,
                   scores, total_score, search_calls, parses>>

\* Lines 118-122 applied once more to self.data with the same response.
ParseAgain ==
    /\ pc = "parse"
    /\ parses < MaxParses
    /\ data' = ParseResponse(response, data)
    /\ parses' = parses + 1
    /\ UNCHANGED <<company_name, pc, fetch_status, fetched_info, prompt, response,
                   scores, total_score, printed, search_calls, steps>>

-----------------------------------------------------------------------------
(* Specifications *)

\* What __init__ and the harnesses leave untouched.
Blank ==
    /\ fetch_status = "none"
    /\ fetched_info = None
    /\ prompt = <<>>
    /\ scores = <<>>
    /\ total_score = NoScore
    /\ printed = <<>>
    /\ search_calls = 0
    /\ steps = <<>>
    /\ parses = 0

\* run(): StartupEvaluator(company_name).run()
Init ==
    /\ company_name \in CompanyNames
    /\ data = FreshData
    /\ response = None
    /\ pc = "fetch"
    /\ Blank

Next == FetchCompanyInfo \/ AnalyzeStartup \/ Evaluate \/ GenerateReport

Spec == Init /\ [][Next]_vars

\* evaluate() and generate_report() on the records parsing can produce.
InitEval ==
    /\ company_name \in {<<"A", "c", "m", "e">>}
    /\ \E r \in Replies(MaxValueLen) :
          /\ response = r
          /\ data = ParseResponse(r, FreshData)
    /\ pc = "evaluate"
    /\ Blank

NextEval == Evaluate \/ GenerateReport

SpecEval == InitEval /\ [][NextEval]_vars

\* The parse of lines 118-122 on arbitrary replies, applied repeatedly.
InitParse ==
    /\ company_name \in {<<"A", "c", "m", "e">>}
    /\ response \in PieceReplies(MaxPieces)
    /\ data = FreshData
    /\ pc = "parse"
    /\ Blank

NextParse == ParseAgain

SpecParse == InitParse /\ [][NextParse]_vars

\* generate_report() on arbitrary scores.
InitReport ==
    /\ company_name \in {<<"A", "c", "m", "e">>}
    /\ total_score \in ReportScores
    /\ scores = [k \in KeySet |-> ScoreFloor]
    /\ data = FreshData
    /\ response = None
    /\ pc = "report"
    /\ fetch_status = "none"
    /\ fetched_info = None
    /\ prompt = <<>>
    /\ printed = <<>>
    /\ search_calls = 0
    /\ steps = <<>>
    /\ parses = 0

NextReport == GenerateReport

SpecReport == InitReport /\ [][NextReport]_vars

-----------------------------------------------------------------------------
(* Properties *)

Evaluated == pc \in {"report", "done"}
Analyzed == pc \in {"evaluate", "report", "done"}

RunSteps == <<"fetch_company_info", "analyze_startup", "evaluate", "generate_report">>

Clamp(n, lo, hi) == IF n < lo THEN lo ELSE IF n > hi THEN hi ELSE n

\* C1: after evaluate(), every category whose parsed value is present (a
\* value of length 0 included) has the score clamp(length mod 10, 1, 10).
C1_PresentValueScoredByLength ==
    Evaluated =>
        \A k \in KeySet :
            data[k] # None => scores[k] = Clamp(Len(data[k]) % 10, 1, 10)

\* The text after the first occurrence of sep in s.
AfterFirst(s, sep) == SubSeq(s, Find(s, sep, 1) + Len(sep), Len(s))

\* The text of s before its first line break.
UpToLineBreak(s) ==
    IF \E i \in 1..Len(s) : s[i] = "\n"
    THEN SubSeq(s, 1, (CHOOSE i \in 1..Len(s) :
                          s[i] = "\n" /\ \A j \in 1..(i - 1) : s[j] # "\n") - 1)
    ELSE s

\* C2: after parsing a non-empty response into a fresh record, each key whose
\* marker occurs holds the trimmed text between the first occurrence of the
\* marker and the next line break, each other key is still absent, and the
\* keys are the ten categories.
C2_ValueIsRestOfLine ==
    (pc = "parse" /\ parses >= 1 /\ Len(response) > 0) =>
        /\ DOMAIN data = KeySet
        /\ \A k \in KeySet :
              IF Contains(response, Marker(k))
              THEN /\ data[k] = Strip(UpToLineBreak(AfterFirst(response, Marker(k))))
                   /\ \A i \in 1..Len(data[k]) : data[k][i] # "\n"
              ELSE data[k] = None

Fraction(n, d) == [num |-> n, den |-> d]

\* C3: generate_report() prints exactly one recommendation: strong iff
\* score >= 8, promising iff 5 <= score < 8, high risk iff score < 5; 8.0 is
\* strong, 7.999 and 5.0 are promising, 4.999 is high risk.
C3_TiersPartitionScores ==
    pc = "done" =>
        /\ Len(printed) = 1
        /\ printed[1] = "strong candidate"
              <=> total_score.num >= 8 * total_score.den
        /\ printed[1] = "promising, needs diligence"
              <=> /\ total_score.num >= 5 * total_score.den
                  /\ total_score.num < 8 * total_score.den
        /\ printed[1] = "high risk, not recommended"
              <=> total_score.num < 5 * total_score.den
        /\ total_score = Fraction(8000, 1000) => printed[1] = "strong candidate"
        /\ total_score = Fraction(7999, 1000) => printed[1] = "promising, needs diligence"
        /\ total_score = Fraction(5000, 1000) => printed[1] = "promising, needs diligence"
        /\ total_score = Fraction(4999, 1000) => printed[1] = "high risk, not recommended"

C3_Witness ==
    /\ pc = "done"
    /\ total_score = Fraction(7999, 1000)
    /\ printed = <<"promising, needs diligence">>

\* C4: the overall score evaluate() returns is the unrounded mean of the ten
\* scores it returns: 10 * overall = sum of the ten scores.
C4_OverallIsMeanOfTen ==
    Evaluated =>
        /\ Cardinality(DOMAIN scores) = 10
        /\ total_score.den > 0
        /\ 10 * total_score.num = SumOver(scores, KeySet) * total_score.den

C4_Witness ==
    /\ Evaluated
    /\ SumOver(scores, KeySet) % 10 # 0
    /\ Missing(data) # {}
    /\ Missing(data) # KeySet

\* C5: when the model call raised or returned nothing, run() does not stop:
\* all ten categories stay absent, all ten scores are drawn from 1..5, the
\* overall score is their mean, and one recommendation is printed at the end.
C5_ModelFailureStillReports ==
    (Analyzed /\ ~Truthy(response)) =>
        /\ data = FreshData
        /\ Evaluated =>
              /\ \A k \in KeySet : scores[k] \in 1..5
              /\ 10 * total_score.num = SumOver(scores, KeySet) * total_score.den
              /\ total_score.den > 0
        /\ pc = "done" =>
              /\ Len(printed) = 1
              /\ printed[1] \in {"strong candidate", "promising, needs diligence",
                                 "high risk, not recommended"}
        /\ pc # "done" => ENABLED Next

C5_Witness ==
    /\ pc = "done"
    /\ response = None
    /\ data = FreshData
    /\ Len(printed) = 1
    /\ \E k \in KeySet : scores[k] = 5

\* C6: after evaluate() the scores have exactly the ten categories as keys,
\* every score is in 1..10 and the score of an absent category is in 1..5.
C6_ScoreMapRange ==
    Evaluated =>
        /\ DOMAIN scores = KeySet
        /\ Cardinality(KeySet) = 10
        /\ \A k \in KeySet :
              /\ scores[k] \in 1..10
              /\ data[k] = None => scores[k] \in 1..5

C6_Witness ==
    /\ Evaluated
    /\ \E k \in KeySet : data[k] = None /\ scores[k] = 5
    /\ \E k \in KeySet : data[k] # None /\ scores[k] = 9
    /\ \E k \in KeySet : data[k] # None /\ Len(data[k]) = 10 /\ scores[k] = 1

\* C7: parsing the same response again into the record the first parse
\* produced leaves the record as it is.
C7_ParseIdempotent ==
    [][(pc = "parse" /\ parses >= 1) => data' = data]_vars

C7_Witness ==
    /\ pc = "parse"
    /\ parses = 2
    /\ \E k \in KeySet : data[k] # None /\ Len(data[k]) > 0
    /\ \E k \in KeySet : data[k] = None

\* C8: fetch_company_info returns None unless the status is 200 (else at most
\* 3 snippets), leaves the record alone, and nothing later depends on its
\* result: the prompt is built from the company name only, the record from
\* the response only, the scores of present values from the record only, the
\* recommendation from the overall score only; and run() goes on.
C8_FetchIndependence ==
    /\ pc # "fetch" =>
          /\ fetch_status \in {"timeout", "exception", "non200"} => fetched_info = None
          /\ fetch_status = "ok" => fetched_info # None /\ Len(fetched_info) <= 3
    /\ pc = "analyze" => data = FreshData
    /\ Analyzed => prompt = <<MultiQuestionPrompt(company_name)>>
    /\ pc = "evaluate" => data = ParseResponse(response, FreshData)
    /\ Evaluated =>
          \A k \in KeySet : Truthy(data[k]) => scores[k] = HeuristicScore(data[k])
    /\ pc = "done" => printed = <<Recommendation(total_score)>>
    /\ pc # "done" => ENABLED Next

C8_Witness ==
    /\ pc = "done"
    /\ fetch_status = "timeout"
    /\ fetched_info = None
    /\ Len(printed) = 1
    /\ \E k \in KeySet : Truthy(data[k])

\* The number of methods run() has called at each of its statements.
StepsBefore(at) ==
    CASE at = "fetch" -> 0
      [] at = "analyze" -> 1
      [] at = "evaluate" -> 2
      [] at = "report" -> 3
      [] at = "done" -> 4

\* C9: run() calls fetch, analyze, evaluate and report once each in this
\* order, calls the model endpoint once and the search endpoint at most once
\* whatever they return, and every run reaches its end: each statement is
\* reached after a fixed number of calls (so no step repeats) and, until the
\* end, a next step is always possible.
C9_RunOrderAndTermination ==
    /\ pc \in {"fetch", "analyze", "evaluate", "report", "done"}
    /\ Len(steps) = StepsBefore(pc)
    /\ steps = SubSeq(RunSteps, 1, Len(steps))
    /\ Len(prompt) = (IF Analyzed THEN 1 ELSE 0)
    /\ search_calls = (IF pc = "fetch" THEN 0 ELSE 1)
    /\ pc # "done" => ENABLED Next
    /\ pc = "done" => Len(printed) = 1

C9_Witness ==
    /\ pc = "done"
    /\ steps = RunSteps
    /\ fetch_status = "timeout"
    /\ response = None
    /\ search_calls = 1
    /\ Len(prompt) = 1

\* C10: no category ever scores 10, the overall score is at most 9.0, and a
\* strong-candidate recommendation is printed only if the scores sum to 80
\* or more.
C10_NoPerfectScore ==
    Evaluated =>
        /\ \A k \in KeySet :
              /\ scores[k] # 10
              /\ data[k] # None => scores[k] <= 9
              /\ data[k] = None => scores[k] <= 5
        /\ total_score.num <= 9 * total_score.den
        /\ (pc = "done" /\ printed = <<"strong candidate">>)
              => SumOver(scores, KeySet) >= 80

C10_Witness ==
    /\ pc = "done"
    /\ printed = <<"strong candidate">>
    /\ total_score = Fraction(90, 10)

====
